---- MODULE Spec2Model ----
(***************************************************************************)
(* Model of pricer.py (perrye2/LimitOrderBook): the Order parser, the two  *)
(* OrderBook objects, calc_cost, print_output and the __main__ event loop. *)
(* One step of the model is one iteration of the loop over the input       *)
(* lines: parse, process on both books, then the two change checks.        *)
(***************************************************************************)
EXTENDS Integers, Sequences, FiniteSets, TLC

\* ------------------------------------------------------------------ bounds
MaxLines == 4
MaxSize  == 2
MaxCents == 1
Ids      == {"a", "b"}

\* the target size the runs of Spec are started with
ModelTarget == 2

VARIABLES
    single_order,           \* the one Order object re-used for every line
    buy_ob, sell_ob,        \* OrderBook("B"), OrderBook("S")
    cached_total_bid_size, cached_total_ask_size,
    cached_buy_amnt, cached_sell_amnt,
    out,                    \* lines printed on standard output
    warnings,               \* number of WARNING lines written on stderr
    nlines,                 \* input lines consumed so far
    target_size,            \* the command-line argument (a positive integer)
    pc                      \* "loop", "crashed" (uncaught exception), "done"

vars == <<single_order, buy_ob, sell_ob, cached_total_bid_size,
          cached_total_ask_size, cached_buy_amnt, cached_sell_amnt,
          out, warnings, nlines, target_size, pc>>

\* ----------------------------------------------------------- small helpers
Without(f, k) == [x \in (DOMAIN f) \ {k} |-> f[x]]

With(f, k, v) == [x \in (DOMAIN f) \cup {k} |-> IF x = k THEN v ELSE f[x]]

RECURSIVE SumOver(_, _)
SumOver(f, S) ==
    IF S = {} THEN 0
    ELSE LET k == CHOOSE x \in S : TRUE IN f[k] + SumOver(f, S \ {k})

SetMin(S) == CHOOSE x \in S : \A y \in S : x <= y

SetMax(S) == CHOOSE x \in S : \A y \in S : x >= y

\* list.sort() / list.sort(reverse = True) on the keys of price_map
RECURSIVE SortAscending(_)
SortAscending(S) ==
    IF S = {} THEN <<>>
    ELSE <<SetMin(S)>> \o SortAscending(S \ {SetMin(S)})

RECURSIVE SortDescending(_)
SortDescending(S) ==
    IF S = {} THEN <<>>
    ELSE <<SetMax(S)>> \o SortDescending(S \ {SetMax(S)})

\* ------------------------------------------------------------------- Order
\* None is modelled as the empty tuple for price and the string "None" for
\* side; an integer price p is the tuple <<p>>.
NewOrder ==
    [timestamp |-> 0, type |-> "", id |-> "", size |-> 0,
     price |-> <<0>>, side |-> ""]

\* A numeric token is [ok, v]: ok is whether int() accepts it.  A price token
\* "d.cc" is [ok, d, c]: ok is whether float() accepts it.
IntTok(v) == [ok |-> TRUE, v |-> v]

BadTok == [ok |-> FALSE, v |-> 0]

PriceTok(d, c) == [ok |-> TRUE, d |-> d, c |-> c]

BadPriceTok == [ok |-> FALSE, d |-> 0, c |-> 0]

\* int(float("d.cc")*100.0 + 0.5): the number of cents
PriceCents(tok) == (tok.d * 1000 + tok.c * 10 + 5) \div 10

\* Order.parse_message: the fields are assigned in source order and a
\* ValueError leaves the assignments made before it in place.
parse_message(o, line) ==
    IF ~line.ts.ok THEN [order |-> o, raised |-> TRUE]
    ELSE
    LET o1 == [o EXCEPT !.timestamp = line.ts.v, !.type = line.type,
                        !.id = line.id]
    IN  IF line.ntok = 4
        THEN IF ~line.size.ok THEN [order |-> o1, raised |-> TRUE]
             ELSE [order |-> [o1 EXCEPT !.size = line.size.v,
                                        !.price = <<>>, !.side = "None"],
                   raised |-> FALSE]
        ELSE IF ~line.size.ok THEN [order |-> o1, raised |-> TRUE]
             ELSE LET o2 == [o1 EXCEPT !.size = line.size.v]
                  IN  IF ~line.price.ok THEN [order |-> o2, raised |-> TRUE]
                      ELSE [order |-> [o2 EXCEPT
                                         !.price = <<PriceCents(line.price)>>,
                                         !.side = line.side],
                            raised |-> FALSE]

\* --------------------------------------------------------------- OrderBook
NewOrderBook(side_string) ==
    [side |-> side_string, total_size |-> 0,
     price_map |-> <<>>, order_map |-> <<>>]

\* _add_order without the side test of line 96 (a faulty variant, used to
\* show that the no-op property depends on that test)
_add_order_any_side(book, order) ==
    LET p == order.price[1]
    IN [book |->
          [book EXCEPT
             !.order_map = With(book.order_map, order.id,
                                [price |-> p, size |-> order.size]),
             !.price_map = IF p \in DOMAIN book.price_map
                           THEN With(book.price_map, p,
                                     book.price_map[p] + order.size)
                           ELSE With(book.price_map, p, order.size),
             !.total_size = book.total_size + order.size],
        raised |-> FALSE]

\* _add_order with "=" for "+=" at line 100 (a faulty variant: an Add at a
\* price that is already a level replaces the aggregate)
_add_order_overwrites_level(book, order) ==
    IF book.side = order.side
    THEN LET p == order.price[1]
         IN [book |->
               [book EXCEPT
                  !.order_map = With(book.order_map, order.id,
                                     [price |-> p, size |-> order.size]),
                  !.price_map = With(book.price_map, p, order.size),
                  !.total_size = book.total_size + order.size],
             raised |-> FALSE]
    ELSE [book |-> book, raised |-> FALSE]

\* each of the book operations returns [book, raised]; raised is an uncaught
\* KeyError, with the book as the assignments before it left it
_add_order(book, order) ==
    IF book.side = order.side
    THEN LET p == order.price[1]
         IN [book |->
               [book EXCEPT
                  !.order_map = With(book.order_map, order.id,
                                     [price |-> p, size |-> order.size]),
                  !.price_map = IF p \in DOMAIN book.price_map
                                THEN With(book.price_map, p,
                                          book.price_map[p] + order.size)
                                ELSE With(book.price_map, p, order.size),
                  !.total_size = book.total_size + order.size],
             raised |-> FALSE]
    ELSE [book |-> book, raised |-> FALSE]

order_id_exists(book, order) == order.id \in DOMAIN book.order_map

\* _reduce_order without line 117, "self.total_size -= reduce_size" (a faulty
\* variant, used to show that change detection depends on total_size
\* following every change of the book)
_reduce_order_stale_total(book, order) ==
    IF order.id \in DOMAIN book.order_map
    THEN LET reduce_size == order.size
             price == book.order_map[order.id].price
             om1 == [book.order_map EXCEPT ![order.id].size = @ - reduce_size]
         IN  IF price \notin DOMAIN book.price_map
             THEN [book |-> [book EXCEPT !.order_map = om1], raised |-> TRUE]
             ELSE
             LET pm1 == [book.price_map EXCEPT ![price] = @ - reduce_size]
                 om2 == IF om1[order.id].size = 0
                        THEN Without(om1, order.id) ELSE om1
                 pm2 == IF pm1[price] = 0 THEN Without(pm1, price) ELSE pm1
             IN  [book |-> [book EXCEPT
                              !.order_map = om2, !.price_map = pm2],
                  raised |-> FALSE]
    ELSE [book |-> book, raised |-> FALSE]

\* _reduce_order without lines 121-122 (a faulty variant: a level whose
\* aggregate reaches zero stays in price_map)
_reduce_order_keeps_level(book, order) ==
    IF order.id \in DOMAIN book.order_map
    THEN LET reduce_size == order.size
             price == book.order_map[order.id].price
             om1 == [book.order_map EXCEPT ![order.id].size = @ - reduce_size]
         IN  IF price \notin DOMAIN book.price_map
             THEN [book |-> [book EXCEPT !.order_map = om1], raised |-> TRUE]
             ELSE
             LET pm1 == [book.price_map EXCEPT ![price] = @ - reduce_size]
                 om2 == IF om1[order.id].size = 0
                        THEN Without(om1, order.id) ELSE om1
             IN  [book |-> [book EXCEPT
                              !.order_map = om2, !.price_map = pm1,
                              !.total_size = book.total_size - reduce_size],
                  raised |-> FALSE]
    ELSE [book |-> book, raised |-> FALSE]

_reduce_order(book, order) ==
    IF order_id_exists(book, order)
    THEN LET reduce_size == order.size
             price == book.order_map[order.id].price
             om1 == [book.order_map EXCEPT ![order.id].size = @ - reduce_size]
         IN  IF price \notin DOMAIN book.price_map
             THEN [book |-> [book EXCEPT !.order_map = om1], raised |-> TRUE]
             ELSE
             LET pm1 == [book.price_map EXCEPT ![price] = @ - reduce_size]
                 om2 == IF om1[order.id].size = 0
                        THEN Without(om1, order.id) ELSE om1
                 pm2 == IF pm1[price] = 0 THEN Without(pm1, price) ELSE pm1
             IN  [book |-> [book EXCEPT
                              !.order_map = om2, !.price_map = pm2,
                              !.total_size = book.total_size - reduce_size],
                  raised |-> FALSE]
    ELSE [book |-> book, raised |-> FALSE]

process_order(book, order) ==
    IF order.type = "A" THEN _add_order(book, order)
    ELSE IF order.type = "R" THEN _reduce_order(book, order)
    ELSE [book |-> book, raised |-> FALSE]

\* the key list sorted ascending for both sides, as if line 151 had no
\* reverse = True (a faulty variant)
sorted_prices_never_reversed(book) == SortAscending(DOMAIN book.price_map)

\* the sorted key list of calc_cost
sorted_prices(book) ==
    IF book.side = "B" THEN SortDescending(DOMAIN book.price_map)
    ELSE SortAscending(DOMAIN book.price_map)

\* the while loop with "cost = this_price*remaining" at line 163 instead of
\* "cost += ..." (a faulty variant: the last, partly taken level replaces the
\* cost gathered so far)
RECURSIVE calc_walk_last_level_only(_, _, _, _, _)
calc_walk_last_level_only(book, prices, remaining, cost, level_count) ==
    IF ~(remaining > 0)
    THEN [cost |-> cost, level_count |-> level_count, raised |-> FALSE]
    ELSE IF level_count + 1 > Len(prices)
    THEN [cost |-> cost, level_count |-> level_count, raised |-> TRUE]
    ELSE LET this_price == prices[level_count + 1]
             this_size == book.price_map[this_price]
         IN  IF remaining >= this_size
             THEN calc_walk_last_level_only(book, prices,
                      remaining - this_size,
                      cost + this_price * this_size, level_count + 1)
             ELSE calc_walk_last_level_only(book, prices, 0,
                      this_price * remaining, level_count + 1)

\* the while loop of calc_cost; raised is an IndexError at prices[level_count]
\* (level_count is 0-based in the source, so prices[level_count] is the
\* element level_count + 1 of the sequence)
RECURSIVE calc_walk(_, _, _, _, _)
calc_walk(book, prices, remaining, cost, level_count) ==
    IF ~(remaining > 0)
    THEN [cost |-> cost, level_count |-> level_count, raised |-> FALSE]
    ELSE IF level_count + 1 > Len(prices)
    THEN [cost |-> cost, level_count |-> level_count, raised |-> TRUE]
    ELSE LET this_price == prices[level_count + 1]
             this_size == book.price_map[this_price]
         IN  IF remaining >= this_size
             THEN calc_walk(book, prices, remaining - this_size,
                            cost + this_price * this_size, level_count + 1)
             ELSE calc_walk(book, prices, 0,
                            cost + this_price * remaining, level_count + 1)

\* calc_cost with "self.total_size > target" at line 142 (a faulty variant: a
\* book that holds exactly the target counts as too small)
calc_run_strict(book, target) ==
    IF book.total_size > target
    THEN calc_walk(book, sorted_prices(book), target, 0, 0)
    ELSE [cost |-> 0, level_count |-> 0, raised |-> FALSE]

calc_run(book, target) ==
    IF book.total_size >= target
    THEN calc_walk(book, sorted_prices(book), target, 0, 0)
    ELSE [cost |-> 0, level_count |-> 0, raised |-> FALSE]

calc_cost(book, target) == calc_run(book, target).cost

\* ------------------------------------------------------------ print_output
Abs(n) == IF n < 0 THEN 0 - n ELSE n

\* "%.2f" % (float(n)/100.0): sign, dollars, cents
Fmt2(n) == [neg |-> n < 0, dollars |-> Abs(n) \div 100, cents |-> Abs(n) % 100]

\* print_output without the test of line 194 (a faulty variant: it prints
\* whether or not the amount changed)
print_output_unconditional(order, side_string, new_amnt, old_amnt) ==
    IF new_amnt # 0
    THEN <<[timestamp |-> order.timestamp, letter |-> side_string,
            na |-> FALSE, amnt |-> Fmt2(new_amnt)]>>
    ELSE <<[timestamp |-> order.timestamp, letter |-> side_string,
            na |-> TRUE, amnt |-> Fmt2(0)]>>

\* print_output labelling a quote with the side of the book that changed
\* instead of the query direction (a faulty variant)
print_output_book_side(order, side_string, new_amnt, old_amnt) ==
    LET letter == IF side_string = "B" THEN "S" ELSE "B"
    IN  IF new_amnt # old_amnt
        THEN IF new_amnt # 0
             THEN <<[timestamp |-> order.timestamp, letter |-> letter,
                     na |-> FALSE, amnt |-> Fmt2(new_amnt)]>>
             ELSE <<[timestamp |-> order.timestamp, letter |-> letter,
                     na |-> TRUE, amnt |-> Fmt2(0)]>>
        ELSE <<>>

\* the lines print_output writes: none, or one quote
print_output(order, side_string, new_amnt, old_amnt) ==
    IF new_amnt # old_amnt
    THEN IF new_amnt # 0
         THEN <<[timestamp |-> order.timestamp, letter |-> side_string,
                 na |-> FALSE, amnt |-> Fmt2(new_amnt)]>>
         ELSE <<[timestamp |-> order.timestamp, letter |-> side_string,
                 na |-> TRUE, amnt |-> Fmt2(0)]>>
    ELSE <<>>

\* ------------------------------------------------------------------- input
Sizes == 1..MaxSize

PriceToks == {PriceTok(0, c) : c \in 0..MaxCents}

AddLines(ts) ==
    [ts : {IntTok(ts)}, type : {"A"}, id : Ids, ntok : {6}, side : {"B", "S"},
     price : PriceToks, size : {IntTok(s) : s \in Sizes}]

ReduceLines(ts) ==
    [ts : {IntTok(ts)}, type : {"R"}, id : Ids, ntok : {4}, side : {"None"},
     price : {BadPriceTok}, size : {IntTok(s) : s \in Sizes}]

\* a well-formed line with one numeric token replaced by a non-numeric one
MalformedLines(ts) ==
    {[l EXCEPT !.ts = BadTok] : l \in AddLines(ts) \cup ReduceLines(ts)}
    \cup {[l EXCEPT !.size = BadTok] : l \in AddLines(ts) \cup ReduceLines(ts)}
    \cup {[l EXCEPT !.price = BadPriceTok] : l \in AddLines(ts)}

\* -------------------------------------------------------------- the program
\* the initialisation with the cached amounts started at a value no cost
\* takes instead of the 0 of lines 249-250 (a faulty variant: the state
\* "no value yet" told apart from NA)
Init_unset_amounts ==
    /\ single_order = NewOrder
    /\ buy_ob = NewOrderBook("B")
    /\ sell_ob = NewOrderBook("S")
    /\ cached_total_bid_size = 0
    /\ cached_total_ask_size = 0
    /\ cached_buy_amnt = -1
    /\ cached_sell_amnt = -1
    /\ out = <<>>
    /\ warnings = 0
    /\ nlines = 0
    /\ target_size = ModelTarget
    /\ pc = "loop"

Init ==
    /\ single_order = NewOrder
    /\ buy_ob = NewOrderBook("B")
    /\ sell_ob = NewOrderBook("S")
    /\ cached_total_bid_size = 0
    /\ cached_total_ask_size = 0
    /\ cached_buy_amnt = 0
    /\ cached_sell_amnt = 0
    /\ out = <<>>
    /\ warnings = 0
    /\ nlines = 0
    /\ target_size = ModelTarget
    /\ pc = "loop"

\* One iteration of the loop "for line in args['in_file']".
LoopBody(line) ==
    LET parsed == parse_message(single_order, line)
        o == parsed.order
        rb == process_order(buy_ob, o)
        rs == process_order(sell_ob, o)
        ask_changed == rs.book.total_size # cached_total_ask_size
        buy_run == calc_run(rs.book, target_size)
        bid_changed == rb.book.total_size # cached_total_bid_size
        sell_run == calc_run(rb.book, target_size)
    IN  /\ nlines' = nlines + 1
        /\ UNCHANGED target_size
        /\ single_order' = o
        /\ warnings' = IF parsed.raised THEN warnings + 1 ELSE warnings
        /\ buy_ob' = rb.book
        /\ IF rb.raised
           THEN \* KeyError in buy_ob.process_order: the run ends here
                /\ pc' = "crashed"
                /\ UNCHANGED <<sell_ob, cached_total_bid_size,
                               cached_total_ask_size, cached_buy_amnt,
                               cached_sell_amnt, out>>
           ELSE
           /\ sell_ob' = rs.book
           /\ IF rs.raised
              THEN /\ pc' = "crashed"
                   /\ UNCHANGED <<cached_total_bid_size,
                                  cached_total_ask_size, cached_buy_amnt,
                                  cached_sell_amnt, out>>
              ELSE
              IF ask_changed /\ buy_run.raised
              THEN \* IndexError in sell_ob.calc_cost
                   /\ pc' = "crashed"
                   /\ cached_total_ask_size' = rs.book.total_size
                   /\ UNCHANGED <<cached_total_bid_size, cached_buy_amnt,
                                  cached_sell_amnt, out>>
              ELSE
              LET out1 == IF ask_changed
                          THEN out \o print_output(o, "B", buy_run.cost,
                                                   cached_buy_amnt)
                          ELSE out
              IN
              /\ cached_total_ask_size' =
                     IF ask_changed THEN rs.book.total_size
                     ELSE cached_total_ask_size
              /\ cached_buy_amnt' =
                     IF ask_changed THEN buy_run.cost ELSE cached_buy_amnt
              /\ IF bid_changed /\ sell_run.raised
                 THEN \* IndexError in buy_ob.calc_cost
                      /\ pc' = "crashed"
                      /\ cached_total_bid_size' = rb.book.total_size
                      /\ out' = out1
                      /\ UNCHANGED cached_sell_amnt
                 ELSE
                 /\ pc' = "loop"
                 /\ cached_total_bid_size' =
                        IF bid_changed THEN rb.book.total_size
                        ELSE cached_total_bid_size
                 /\ cached_sell_amnt' =
                        IF bid_changed THEN sell_run.cost
                        ELSE cached_sell_amnt
                 /\ out' = IF bid_changed
                           THEN out1 \o print_output(o, "S", sell_run.cost,
                                                     cached_sell_amnt)
                           ELSE out1

HandleAdd ==
    /\ pc = "loop"
    /\ nlines < MaxLines
    /\ \E line \in AddLines(nlines + 1) : LoopBody(line)

HandleReduce ==
    /\ pc = "loop"
    /\ nlines < MaxLines
    /\ \E line \in ReduceLines(nlines + 1) : LoopBody(line)

HandleMalformed ==
    /\ pc = "loop"
    /\ nlines < MaxLines
    /\ \E line \in MalformedLines(nlines + 1) : LoopBody(line)

\* end of input: args["in_file"].close()
EndOfInput ==
    /\ pc = "loop"
    /\ pc' = "done"
    /\ UNCHANGED <<single_order, buy_ob, sell_ob, cached_total_bid_size,
                   cached_total_ask_size, cached_buy_amnt, cached_sell_amnt,
                   out, warnings, nlines, target_size>>

Next == HandleAdd \/ HandleReduce \/ HandleMalformed \/ EndOfInput

Spec == Init /\ [][Next]_vars

\* ------------------------------------------- the run on the example input
\* The four lines
\*     28800538 A b S 44.26 100
\*     28800562 A c B 44.10 100
\*     28800592 A a S 44.25 100
\*     28800642 R a 100
\* read from the file to its end, for every target size up to
\* MaxScenarioTarget.
MaxScenarioTarget == 300

ScenarioAdd(ts, id, side, d, c, size) ==
    [ts |-> IntTok(ts), type |-> "A", id |-> id, ntok |-> 6, side |-> side,
     price |-> PriceTok(d, c), size |-> IntTok(size)]

ScenarioReduce(ts, id, size) ==
    [ts |-> IntTok(ts), type |-> "R", id |-> id, ntok |-> 4, side |-> "None",
     price |-> BadPriceTok, size |-> IntTok(size)]

ScenarioLines ==
    << ScenarioAdd(28800538, "b", "S", 44, 26, 100),
       ScenarioAdd(28800562, "c", "B", 44, 10, 100),
       ScenarioAdd(28800592, "a", "S", 44, 25, 100),
       ScenarioReduce(28800642, "a", 100) >>

InitScenario ==
    /\ single_order = NewOrder
    /\ buy_ob = NewOrderBook("B")
    /\ sell_ob = NewOrderBook("S")
    /\ cached_total_bid_size = 0
    /\ cached_total_ask_size = 0
    /\ cached_buy_amnt = 0
    /\ cached_sell_amnt = 0
    /\ out = <<>>
    /\ warnings = 0
    /\ nlines = 0
    /\ target_size \in 1..MaxScenarioTarget
    /\ pc = "loop"

ScenarioLine ==
    /\ pc = "loop"
    /\ nlines < Len(ScenarioLines)
    /\ LoopBody(ScenarioLines[nlines + 1])

ScenarioEnd ==
    /\ nlines = Len(ScenarioLines)
    /\ EndOfInput

NextScenario == ScenarioLine \/ ScenarioEnd

SpecScenario == InitScenario /\ [][NextScenario]_vars

\* ------------------------------------------------- vocabulary of the claims
\* the quotes printed by the step
NewQuotes == SubSeq(out', Len(out) + 1, Len(out'))

NewLetters == {NewQuotes[i].letter : i \in 1..Len(NewQuotes)}

\* the step handled a line: the loop body ran to its end
Handled == nlines' = nlines + 1 /\ pc' = "loop"

\* the step handled a line that parse_message accepted
HandledWellFormed == Handled /\ warnings' = warnings

OrderSizeSum(book) ==
    SumOver([i \in DOMAIN book.order_map |-> book.order_map[i].size],
            DOMAIN book.order_map)

LevelSum(book) == SumOver(book.price_map, DOMAIN book.price_map)

LevelAt(book, p) ==
    IF p \in DOMAIN book.price_map THEN book.price_map[p] ELSE 0

\* C1: for each book, total_size equals the sum of the values of price_map
\* and the sum of the sizes in order_map, after any sequence of Add and
\* Reduce lines.
TotalsAgree(book) ==
    /\ book.total_size = LevelSum(book)
    /\ book.total_size = OrderSizeSum(book)

C1_TotalSizeIsSumOfLevelsAndOrders ==
    pc # "crashed" => TotalsAgree(buy_ob) /\ TotalsAgree(sell_ob)

\* C2: no price level of a book maps to zero or a negative size and no order
\* in a book's order_map has size <= 0.
AllPositive(book) ==
    /\ \A p \in DOMAIN book.price_map : book.price_map[p] > 0
    /\ \A i \in DOMAIN book.order_map : book.order_map[i].size > 0

C2_LevelsAndOrdersPositive ==
    pc # "crashed" => AllPositive(buy_ob) /\ AllPositive(sell_ob)

\* C3: a Reduce of an open order by more than its remaining size is clamped:
\* the order leaves order_map, and its level and total_size go down by the
\* remaining size only.
OverReduction(book, o) ==
    /\ o.type = "R"
    /\ o.id \in DOMAIN book.order_map
    /\ o.size > book.order_map[o.id].size

ClampedReduce(book, bookAfter, o) ==
    LET cur == book.order_map[o.id]
    IN  /\ o.id \notin DOMAIN bookAfter.order_map
        /\ bookAfter.total_size = book.total_size - cur.size
        /\ LevelAt(bookAfter, cur.price) = LevelAt(book, cur.price) - cur.size

C3_OverReductionIsClamped ==
    [][HandledWellFormed =>
         /\ OverReduction(buy_ob, single_order')
              => ClampedReduce(buy_ob, buy_ob', single_order')
         /\ OverReduction(sell_ob, single_order')
              => ClampedReduce(sell_ob, sell_ob', single_order')]_vars

\* C4: a line whose parsing fails (a WARNING is written) changes neither
\* book nor any of the four cached scalars, and prints no quote.
C4_MalformedLineChangesNothing ==
    [][warnings' # warnings =>
         /\ buy_ob' = buy_ob
         /\ sell_ob' = sell_ob
         /\ cached_total_bid_size' = cached_total_bid_size
         /\ cached_total_ask_size' = cached_total_ask_size
         /\ cached_buy_amnt' = cached_buy_amnt
         /\ cached_sell_amnt' = cached_sell_amnt
         /\ out' = out]_vars

\* C5: calc_cost gives the unavailable result (the 0 that print_output
\* prints as NA) exactly when total_size < target; with total_size >= target
\* the result is a cost that is told apart from unavailable.
UnavailableIffShort(book) ==
    (calc_cost(book, target_size) = 0) <=> (book.total_size < target_size)

C5_UnavailableIffInsufficient ==
    pc # "crashed" =>
        UnavailableIffShort(buy_ob) /\ UnavailableIffShort(sell_ob)

\* C6: with total_size >= target, calc_cost is the best-first fill: lowest
\* price first on the sell-side book, highest first on the buy-side book,
\* each level giving min(remaining, level size) at its price, until the
\* sizes taken add up to the target.
Min(x, y) == IF x <= y THEN x ELSE y

RECURSIVE BestFirstFill(_, _, _)
BestFirstFill(levels, side, remaining) ==
    IF remaining = 0 \/ DOMAIN levels = {}
    THEN [cost |-> 0, filled |-> 0]
    ELSE LET best == IF side = "S" THEN SetMin(DOMAIN levels)
                     ELSE SetMax(DOMAIN levels)
             take == Min(remaining, levels[best])
             rest == BestFirstFill(Without(levels, best), side,
                                   remaining - take)
         IN  [cost |-> take * best + rest.cost, filled |-> take + rest.filled]

CostIsBestFirst(book) ==
    \A t \in 1..book.total_size :
        LET ref == BestFirstFill(book.price_map, book.side, t)
        IN  /\ ~calc_run(book, t).raised
            /\ ref.filled = t
            /\ calc_cost(book, t) = ref.cost

C6_CalcCostIsBestFirstFill == CostIsBestFirst(buy_ob) /\ CostIsBestFirst(sell_ob)

\* a bid book with two positive levels whose walk for the target takes the
\* whole of the best level and a part of the next
C6_Witness ==
    /\ Cardinality(DOMAIN buy_ob.price_map) = 2
    /\ AllPositive(buy_ob)
    /\ buy_ob.total_size > target_size
    /\ calc_run(buy_ob, target_size).level_count = 2
    /\ calc_cost(buy_ob, target_size) > 0

QuoteValue(q) == <<q.na, q.amnt>>

C8_NoRepeatedQuote ==
    \A i, j \in 1..Len(out) :
        ( /\ i < j
          /\ out[i].letter = out[j].letter
          /\ \A k \in (i + 1)..(j - 1) : out[k].letter # out[i].letter )
        => QuoteValue(out[i]) # QuoteValue(out[j])

\* a sell quote with a number followed by a sell quote NA
C8_Witness ==
    \E i, j \in 1..Len(out) :
        /\ i < j
        /\ out[i].letter = "S" /\ out[j].letter = "S"
        /\ ~out[i].na /\ out[j].na

\* C9: a B quote is printed only by a line that changed the ask book's
\* total_size and carries the ask book's cost; an S quote only by a line that
\* changed the bid book's total_size and carries the bid book's cost.  An Add
\* with side B prints no B quote and an Add with side S no S quote.
CarriesCostOf(q, book) ==
    LET c == calc_cost(book, target_size)
    IN  /\ q.na = (c = 0)
        /\ q.amnt = Fmt2(c)

C9_QuoteLetterIsQueryDirection ==
    [][\A i \in 1..Len(NewQuotes) :
         LET q == NewQuotes[i]
         IN  /\ q.letter \in {"B", "S"}
             /\ q.letter = "B" =>
                  /\ sell_ob'.total_size # sell_ob.total_size
                  /\ CarriesCostOf(q, sell_ob')
             /\ q.letter = "S" =>
                  /\ buy_ob'.total_size # buy_ob.total_size
                  /\ CarriesCostOf(q, buy_ob')
             /\ single_order'.type = "A" => q.letter # single_order'.side]_vars

\* the last line was an Add with side B and it printed an S quote
C9_Witness ==
    /\ Len(out) > 0
    /\ out[Len(out)].letter = "S"
    /\ out[Len(out)].timestamp = single_order.timestamp
    /\ single_order.type = "A"
    /\ single_order.side = "B"
    /\ warnings = 0

\* C10: an Add for the other side and a Reduce of an id that is not in the
\* book's order_map leave the book as it was, however often they are applied.
NoOpFor(book, o) ==
    \/ o.type = "A" /\ o.side # book.side
    \/ o.type = "R" /\ o.id \notin DOMAIN book.order_map

AppliedTwice(book, o) == process_order(process_order(book, o).book, o).book

C10_NoOpLeavesBookUnchanged ==
    [][nlines' = nlines + 1 =>
         /\ NoOpFor(buy_ob, single_order') =>
              buy_ob' = buy_ob /\ AppliedTwice(buy_ob, single_order') = buy_ob
         /\ NoOpFor(sell_ob, single_order') =>
              sell_ob' = sell_ob
              /\ AppliedTwice(sell_ob, single_order') = sell_ob]_vars

\* the last line was a Reduce of an id open on neither book, while both
\* books hold orders
C10_Witness ==
    /\ single_order.type = "R"
    /\ warnings = 0
    /\ buy_ob.order_map # <<>>
    /\ sell_ob.order_map # <<>>
    /\ AllPositive(buy_ob) /\ AllPositive(sell_ob)
    /\ TotalsAgree(buy_ob) /\ TotalsAgree(sell_ob)
    /\ single_order.id \notin DOMAIN buy_ob.order_map
    /\ single_order.id \notin DOMAIN sell_ob.order_map
    /\ out = <<>>

\* C11: an NA quote of a letter is printed only after a quote with a number
\* of that letter: the quote of that letter before it carries a number, and
\* the first quote of a letter is never NA.
C11_NAOnlyAfterNumber ==
    \A j \in 1..Len(out) :
        out[j].na =>
            \E i \in 1..(j - 1) :
                /\ out[i].letter = out[j].letter
                /\ ~out[i].na
                /\ \A k \in (i + 1)..(j - 1) : out[k].letter # out[j].letter

\* the ask book was below the target after a handled line that printed
\* nothing, and later a buy quote with a number was followed by a buy quote NA
C11_Witness ==
    /\ Len(out) >= 2
    /\ out[1].timestamp > 1
    /\ out[1].letter = "B" /\ ~out[1].na
    /\ out[2].letter = "B" /\ out[2].na
    /\ warnings = 0

\* the Order objects of a reduce line and of an add line
ReduceOrder(id, size) ==
    [timestamp |-> 0, type |-> "R", id |-> id, size |-> size,
     price |-> <<>>, side |-> "None"]

AddOrder(id, side, price, size) ==
    [timestamp |-> 0, type |-> "A", id |-> id, size |-> size,
     price |-> <<price>>, side |-> side]

RestingAt(book, p) ==
    {i \in DOMAIN book.order_map : book.order_map[i].price = p}

\* each level is the sum of the orders resting at its price
LevelsConsistent(book) ==
    /\ \A i \in DOMAIN book.order_map :
           book.order_map[i].price \in DOMAIN book.price_map
    /\ \A p \in DOMAIN book.price_map :
           book.price_map[p] =
               SumOver([i \in RestingAt(book, p) |-> book.order_map[i].size],
                       RestingAt(book, p))

BookInvariants(book) ==
    TotalsAgree(book) /\ AllPositive(book) /\ LevelsConsistent(book)

\* every order of ids reduced, one after the other, by its remaining size
RECURSIVE ReduceAllFully(_, _)
ReduceAllFully(book, ids) ==
    IF ids = {} THEN [book |-> book, raised |-> FALSE]
    ELSE LET i == CHOOSE x \in ids : TRUE
             r == process_order(book,
                                ReduceOrder(i, book.order_map[i].size))
         IN  IF r.raised THEN r ELSE ReduceAllFully(r.book, ids \ {i})

\* C12: from a book that satisfies the invariants, reducing every order that
\* rests at price p by its remaining size removes p from price_map and those
\* ids from order_map; an Add (id, p, s) after that gives price_map[p] = s and
\* order_map[id] = (p, s), as it does on a new book.
RoundTripAt(book, p) ==
    LET ids == RestingAt(book, p)
        drained == ReduceAllFully(book, ids)
    IN  /\ ~drained.raised
        /\ p \notin DOMAIN drained.book.price_map
        /\ ids \cap DOMAIN drained.book.order_map = {}
        /\ \A i \in Ids, sz \in Sizes :
               LET o == AddOrder(i, book.side, p, sz)
                   again == process_order(drained.book, o).book
                   fresh == process_order(NewOrderBook(book.side), o).book
               IN  /\ again.price_map[p] = sz
                   /\ again.order_map[i] = [price |-> p, size |-> sz]
                   /\ again.price_map[p] = fresh.price_map[p]
                   /\ again.order_map[i] = fresh.order_map[i]

RoundTripHolds(book) ==
    BookInvariants(book) => \A p \in DOMAIN book.price_map : RoundTripAt(book, p)

C12_LevelRoundTrip == RoundTripHolds(buy_ob) /\ RoundTripHolds(sell_ob)

\* an ask book that satisfies the invariants with two orders resting at one
\* price, whose aggregate is more than any single order
C12_Witness ==
    /\ BookInvariants(sell_ob)
    /\ \E p \in DOMAIN sell_ob.price_map :
           /\ Cardinality(RestingAt(sell_ob, p)) = 2
           /\ sell_ob.price_map[p] > MaxSize
    /\ pc = "loop"

\* C13: on a book that satisfies the invariants calc_cost does not decrease
\* as the target grows from 0 to total_size, and calc_cost of target 0 is 0.
CostMonotone(book) ==
    /\ calc_cost(book, 0) = 0
    /\ BookInvariants(book) =>
         \A t1, t2 \in 0..book.total_size :
             t1 <= t2 => calc_cost(book, t1) <= calc_cost(book, t2)

C13_CostNonDecreasingInTarget == CostMonotone(buy_ob) /\ CostMonotone(sell_ob)

\* a bid book with two levels on which the cost of the whole book is more
\* than the cost of one unit, and one more unit at the worse level costs
\* nothing more
C13_Witness ==
    /\ BookInvariants(buy_ob)
    /\ Cardinality(DOMAIN buy_ob.price_map) = 2
    /\ buy_ob.total_size >= 3
    /\ calc_cost(buy_ob, 1) > 0
    /\ calc_cost(buy_ob, buy_ob.total_size - 1)
         = calc_cost(buy_ob, buy_ob.total_size)

\* C14: for target 200 the example input prints exactly the quotes
\* (28800538, B, NA), (28800592, B, 44.26), (28800642, B, NA).
NumberQuote(ts, letter, dollars, cents) ==
    [timestamp |-> ts, letter |-> letter, na |-> FALSE,
     amnt |-> [neg |-> FALSE, dollars |-> dollars, cents |-> cents]]

NAQuote(ts, letter) ==
    [timestamp |-> ts, letter |-> letter, na |-> TRUE,
     amnt |-> [neg |-> FALSE, dollars |-> 0, cents |-> 0]]

ScenarioDone == target_size = 200 /\ pc = "done"

C14_ScenarioOutputAsStated ==
    ScenarioDone =>
        out = << NAQuote(28800538, "B"),
                 NumberQuote(28800592, "B", 44, 26),
                 NAQuote(28800642, "B") >>

\* C14, amended: for target 200 the example input prints exactly the quotes
\* (28800592, B, 8851.00) and (28800642, B, NA): nothing at 28800538, the
\* cost of 100 at 44.25 plus 100 at 44.26 at 28800592, and no S quote.
C14_ScenarioOutput ==
    ScenarioDone =>
        out = << NumberQuote(28800592, "B", 8851, 0),
                 NAQuote(28800642, "B") >>

\* the example input read to its end with target 200
C14_Witness ==
    /\ ScenarioDone
    /\ nlines = 4
    /\ warnings = 0
    /\ sell_ob.price_map = (4426 :> 100)
    /\ buy_ob.price_map = (4410 :> 100)

\* C15: a Reduce of size r of an order that is open on a book with at least
\* r remaining takes exactly r off the order, off the level at its price and
\* off total_size, and changes no other order or level; the order leaves
\* order_map exactly when its size reaches 0 and the price leaves price_map
\* exactly when its aggregate reaches 0, so calc_cost no longer visits it.
ReduceWithinRemaining(book, o) ==
    /\ o.type = "R"
    /\ o.id \in DOMAIN book.order_map
    /\ book.order_map[o.id].size >= o.size

ExactReduce(book, bookAfter, o) ==
    LET cur == book.order_map[o.id]
        left == cur.size - o.size
        aggregate == LevelAt(book, cur.price) - o.size
    IN  /\ cur.price \in DOMAIN book.price_map
        /\ bookAfter.total_size = book.total_size - o.size
        /\ (left = 0) <=> (o.id \notin DOMAIN bookAfter.order_map)
        /\ o.id \in DOMAIN bookAfter.order_map =>
               bookAfter.order_map[o.id] = [price |-> cur.price, size |-> left]
        /\ (aggregate = 0) <=> (cur.price \notin DOMAIN bookAfter.price_map)
        /\ cur.price \in DOMAIN bookAfter.price_map =>
               bookAfter.price_map[cur.price] = aggregate
        /\ aggregate = 0 =>
               \A k \in 1..Len(sorted_prices(bookAfter)) :
                   sorted_prices(bookAfter)[k] # cur.price
        /\ DOMAIN bookAfter.order_map \ {o.id} = DOMAIN book.order_map \ {o.id}
        /\ \A i \in DOMAIN book.order_map \ {o.id} :
               bookAfter.order_map[i] = book.order_map[i]
        /\ DOMAIN bookAfter.price_map \ {cur.price}
               = DOMAIN book.price_map \ {cur.price}
        /\ \A q \in DOMAIN book.price_map \ {cur.price} :
               bookAfter.price_map[q] = book.price_map[q]

C15_ReduceTakesExactlyItsSize ==
    [][nlines' = nlines + 1 =>
         /\ ReduceWithinRemaining(buy_ob, single_order')
              => ExactReduce(buy_ob, buy_ob', single_order')
         /\ ReduceWithinRemaining(sell_ob, single_order')
              => ExactReduce(sell_ob, sell_ob', single_order')]_vars

\* C16: an Add for the book's side with an id that is not in order_map sets
\* order_map[id] = (price, size), adds size to the level at price (a new
\* level if there was none) and to total_size, and changes no other order or
\* level; after two such Adds at one price p on an empty book there is the
\* single level p with the sum of the two sizes, and calc_cost of that sum
\* is p times the sum.
FreshAdd(book, o) ==
    /\ o.type = "A"
    /\ o.side = book.side
    /\ o.id \notin DOMAIN book.order_map

ExactAdd(book, bookAfter, o) ==
    LET p == o.price[1]
    IN  /\ bookAfter.total_size = book.total_size + o.size
        /\ DOMAIN bookAfter.order_map = DOMAIN book.order_map \cup {o.id}
        /\ bookAfter.order_map[o.id] = [price |-> p, size |-> o.size]
        /\ \A i \in DOMAIN book.order_map :
               bookAfter.order_map[i] = book.order_map[i]
        /\ DOMAIN bookAfter.price_map = DOMAIN book.price_map \cup {p}
        /\ bookAfter.price_map[p] = LevelAt(book, p) + o.size
        /\ \A q \in DOMAIN book.price_map \ {p} :
               bookAfter.price_map[q] = book.price_map[q]

\* the book after two well-formed lines that both added an order to it at
\* the same price
TwoAddsAtOnePrice(book, n, w) ==
    /\ n = 2
    /\ w = 0
    /\ Cardinality(DOMAIN book.order_map) = 2
    /\ \A i, j \in DOMAIN book.order_map :
           book.order_map[i].price = book.order_map[j].price

OneLevelWithTheSum(book) ==
    LET sum == OrderSizeSum(book)
        p == book.order_map[CHOOSE i \in DOMAIN book.order_map : TRUE].price
    IN  /\ DOMAIN book.price_map = {p}
        /\ book.price_map[p] = sum
        /\ calc_cost(book, sum) = p * sum

C16_AddAggregatesAtPrice ==
    [][nlines' = nlines + 1 =>
         /\ FreshAdd(buy_ob, single_order')
              => ExactAdd(buy_ob, buy_ob', single_order')
         /\ FreshAdd(sell_ob, single_order')
              => ExactAdd(sell_ob, sell_ob', single_order')
         /\ TwoAddsAtOnePrice(buy_ob', nlines', warnings')
              => OneLevelWithTheSum(buy_ob')
         /\ TwoAddsAtOnePrice(sell_ob', nlines', warnings')
              => OneLevelWithTheSum(sell_ob')]_vars

\* two Adds of different sizes at the price of one cent on the empty bid book
C16_Witness ==
    /\ TwoAddsAtOnePrice(buy_ob, nlines, warnings)
    /\ buy_ob.order_map["a"].size # buy_ob.order_map["b"].size
    /\ buy_ob.order_map["a"].price = 1
    /\ calc_cost(buy_ob, buy_ob.total_size) = buy_ob.total_size

\* C17: the price of every order in a book's order_map is a key of that
\* book's price_map, so that a Reduce of a known id raises no KeyError.
OrderPricesAreLevels(book) ==
    \A i \in DOMAIN book.order_map :
        book.order_map[i].price \in DOMAIN book.price_map

C17_OrderPriceIsALevel ==
    /\ OrderPricesAreLevels(buy_ob)
    /\ OrderPricesAreLevels(sell_ob)
    /\ pc # "crashed"

\* C18: for every positive target calc_cost ends without indexing past the
\* last of the sorted prices: with total_size >= target the loop reaches
\* remaining = 0 after at most as many levels as price_map holds.
WalkStaysInRange(book) ==
    \A t \in 1..(book.total_size + 1) :
        LET run == calc_run(book, t)
        IN  /\ ~run.raised
            /\ run.level_count <= Cardinality(DOMAIN book.price_map)
            /\ t <= book.total_size => run.level_count >= 1

C18_CalcCostWalkStaysInRange ==
    WalkStaysInRange(buy_ob) /\ WalkStaysInRange(sell_ob)

\* an ask book of two levels that hold exactly the target: the walk takes the
\* last level whole
C18_Witness ==
    /\ Cardinality(DOMAIN sell_ob.price_map) = 2
    /\ AllPositive(sell_ob)
    /\ sell_ob.total_size = target_size
    /\ calc_run(sell_ob, target_size).level_count = 2
    /\ ~calc_run(sell_ob, target_size).raised

\* C19: a line changes at most one of the two books and prints at most one
\* quote.
C19_OneBookOneQuotePerLine ==
    [][nlines' = nlines + 1 =>
         /\ ~(buy_ob' # buy_ob /\ sell_ob' # sell_ob)
         /\ Len(NewQuotes) <= 1]_vars

\* C19, amended: a line changes both books, or prints both a B and an S
\* quote, only if it is a Reduce of an id that is open on both books; every
\* other line changes at most one book and prints at most one quote, and no
\* line prints more than one quote of a letter.
ReduceOfIdOnBothSides ==
    /\ single_order'.type = "R"
    /\ single_order'.id \in DOMAIN buy_ob.order_map
    /\ single_order'.id \in DOMAIN sell_ob.order_map

C19_BothBooksOnlyOnSharedId ==
    [][nlines' = nlines + 1 =>
         /\ (buy_ob' # buy_ob /\ sell_ob' # sell_ob) => ReduceOfIdOnBothSides
         /\ Len(NewQuotes) > 1 => ReduceOfIdOnBothSides
         /\ Len(NewQuotes) <= 2
         /\ Len(NewQuotes) = 2 => NewQuotes[1].letter # NewQuotes[2].letter]_vars

\* a Reduce of an id open on both books that printed a B and an S quote
C19_Witness ==
    /\ Len(out) >= 2
    /\ out[Len(out)].timestamp = out[Len(out) - 1].timestamp
    /\ out[Len(out) - 1].letter = "B"
    /\ out[Len(out)].letter = "S"
    /\ single_order.type = "R"
    /\ single_order.timestamp = out[Len(out)].timestamp
    /\ warnings = 0
    /\ pc = "loop"

====
